---------------------------- MODULE Spec2Model ----------------------------
(***************************************************************************)
(* Model of compare_rouge_l.py: the harness that builds two candidate      *)
(* programs, times them, extracts the records each one prints and          *)
(* compares the two record sequences.                                      *)
(*                                                                         *)
(* Text is modelled as a sequence of one-character strings, so that the    *)
(* substring tests, the splits and the regular expressions of the source   *)
(* are computed on the characters and not assumed.  Python's None is the   *)
(* empty tuple and a present value x is <<x>>.  Scores are exact decimals  *)
(* counted in units of 10^-FracDigits.                                     *)
(***************************************************************************)
EXTENDS Integers, Sequences, FiniteSets, TLC

\* ------------------------------------------------------------------ bounds
MaxLines == 3        \* lines of an input text of extract_results
Iterations == 2      \* the iterations argument of run_java / run_rust
FracDigits == 5      \* decimal places kept of a parsed score

\* ------------------------------------------------------- Python primitives
None == <<>>
Some(x) == <<x>>

Digits == {"0", "1", "2", "3", "4", "5", "6", "7", "8", "9"}
Whitespace == {" ", "\t", "\n"}

DigitVal(c) ==
    CASE c = "0" -> 0 [] c = "1" -> 1 [] c = "2" -> 2 [] c = "3" -> 3
      [] c = "4" -> 4 [] c = "5" -> 5 [] c = "6" -> 6 [] c = "7" -> 7
      [] c = "8" -> 8 [] c = "9" -> 9

Pow10(n) == IF n <= 0 THEN 1 ELSE
    LET P[k \in 0..n] == IF k = 0 THEN 1 ELSE 10 * P[k - 1] IN P[n]

Abs(x) == IF x < 0 THEN -x ELSE x

Drop(s, n) == SubSeq(s, n + 1, Len(s))

\* s[a-1:b]: a slice, cut at the end of s as Python cuts it
Slice(s, a, b) == SubSeq(s, a, IF b > Len(s) THEN Len(s) ELSE b)

\* str.startswith
StartsWith(s, pat) == Len(pat) <= Len(s) /\ SubSeq(s, 1, Len(pat)) = pat

\* pat in s
Contains(s, pat) ==
    \E i \in 1..(Len(s) - Len(pat) + 1) : SubSeq(s, i, i + Len(pat) - 1) = pat

\* str.find, 1-based; 0 when absent
Find(s, pat) ==
    LET hits == {i \in 1..(Len(s) - Len(pat) + 1) :
                    SubSeq(s, i, i + Len(pat) - 1) = pat}
    IN IF hits = {} THEN 0 ELSE CHOOSE i \in hits : \A j \in hits : i <= j

\* str.lstrip / rstrip / strip with no argument
RECURSIVE LStrip(_)
LStrip(s) == IF s # <<>> /\ Head(s) \in Whitespace THEN LStrip(Tail(s)) ELSE s

RECURSIVE RStrip(_)
RStrip(s) ==
    IF s # <<>> /\ s[Len(s)] \in Whitespace
    THEN RStrip(SubSeq(s, 1, Len(s) - 1)) ELSE s

Strip(s) == RStrip(LStrip(s))

\* str.rstrip(chars)
RECURSIVE RStripChars(_, _)
RStripChars(s, chars) ==
    IF s # <<>> /\ s[Len(s)] \in chars
    THEN RStripChars(SubSeq(s, 1, Len(s) - 1), chars) ELSE s

\* str.split(sep) for a one-character separator: empty fields are kept
RECURSIVE SplitOn(_, _)
SplitOn(s, sep) ==
    LET p == Find(s, <<sep>>) IN
    IF p = 0 THEN <<s>>
    ELSE <<SubSeq(s, 1, p - 1)>> \o SplitOn(Drop(s, p), sep)

\* str.split() with no argument: runs of whitespace separate, no empty fields
RECURSIVE SplitWs(_)
SplitWs(s) ==
    LET t == LStrip(s) IN
    IF t = <<>> THEN <<>>
    ELSE LET ends == {i \in 1..Len(t) : t[i] \in Whitespace}
             e == IF ends = {} THEN Len(t) + 1
                  ELSE CHOOSE i \in ends : \A j \in ends : i <= j
         IN <<SubSeq(t, 1, e - 1)>> \o SplitWs(Drop(t, e - 1))

\* s.split(pat, 1)[1]: what follows the first occurrence of pat
AfterFirst(s, pat) == Drop(s, Find(s, pat) + Len(pat) - 1)

\* "\n".join(lines)
RECURSIVE Join(_)
Join(ls) ==
    IF ls = <<>> THEN <<>>
    ELSE IF Len(ls) = 1 THEN ls[1]
    ELSE ls[1] \o <<"\n">> \o Join(Tail(ls))

\* the end of the longest run of digits that starts at position i (i - 1 when
\* s[i] is no digit): what \d+ consumes
RECURSIVE DigitRunEnd(_, _)
DigitRunEnd(s, i) ==
    IF i <= Len(s) /\ s[i] \in Digits THEN DigitRunEnd(s, i + 1) ELSE i - 1

\* the value of a run of digits
RECURSIVE DigitsVal(_)
DigitsVal(ds) ==
    IF ds = <<>> THEN 0
    ELSE 10 * DigitsVal(SubSeq(ds, 1, Len(ds) - 1)) + DigitVal(ds[Len(ds)])

\* int(tok): an optional sign and digits; anything else raises ValueError
IsIntLiteral(tok) ==
    LET body == IF tok # <<>> /\ tok[1] \in {"+", "-"} THEN Tail(tok) ELSE tok
    IN body # <<>> /\ \A i \in 1..Len(body) : body[i] \in Digits

IntOf(tok) ==
    IF tok[1] = "-" THEN -DigitsVal(Tail(tok))
    ELSE IF tok[1] = "+" THEN DigitsVal(Tail(tok))
    ELSE DigitsVal(tok)

\* re.findall(r'\d+\.\d+', s) from position i on: leftmost matches, each as
\* long as possible, none overlapping
RECURSIVE FindDecimals(_, _)
FindDecimals(s, i) ==
    IF i > Len(s) THEN <<>>
    ELSE LET e == DigitRunEnd(s, i) IN
         IF e >= i /\ e + 2 <= Len(s) /\ s[e + 1] = "." /\ s[e + 2] \in Digits
         THEN LET f == DigitRunEnd(s, e + 2)
              IN <<SubSeq(s, i, f)>> \o FindDecimals(s, f + 1)
         ELSE FindDecimals(s, i + 1)

\* float(d) for d matching \d+\.\d+, as an exact decimal in units of
\* 10^-FracDigits (inputs carry at most FracDigits decimal places).  Binary
\* rounding is not modelled: it decides only a difference of exactly the
\* tolerance, and no two scores of the inputs differ by exactly 0.0001.
FloatOf(d) ==
    LET dot == Find(d, <<".">>)
        whole == SubSeq(d, 1, dot - 1)
        frac == SubSeq(d, dot + 1, Len(d))
        kept == SubSeq(frac, 1, IF Len(frac) < FracDigits THEN Len(frac)
                                 ELSE FracDigits)
    IN DigitsVal(whole) * Pow10(FracDigits)
         + DigitsVal(kept) * Pow10(FracDigits - Len(kept))

\* ------------------------------------------------- literals of the source
sLevel == <<"L","e","v","e","l">>
sLevelSp == <<"L","e","v","e","l"," ">>
sColon == <<":">>
sColonSp == <<":"," ">>
sExample == <<"E","x","a","m","p","l","e">>
sCandidate == <<"C","a","n","d","i","d","a","t","e",":">>
sReference == <<"R","e","f","e","r","e","n","c","e",":">>
sResult == <<"R","e","s","u","l","t",":">>
sFMeasure == <<"F","-","M","e","a","s","u","r","e",":">>

\* ---------------------------------------------------------- extract_results
\* re.search(r'Level (\d+): (.+)', line): the leftmost position where
\* "Level ", digits, ": " and at least one more character follow; 0 if none
LevelMatchAt(line, p) ==
    /\ Slice(line, p, p + 5) = sLevelSp
    /\ LET e == DigitRunEnd(line, p + 6) IN
         /\ e >= p + 6
         /\ Slice(line, e + 1, e + 2) = sColonSp
         /\ e + 3 <= Len(line)

LevelSearch(line) ==
    LET hits == {p \in 1..Len(line) : LevelMatchAt(line, p)}
    IN IF hits = {} THEN 0 ELSE CHOOSE p \in hits : \A q \in hits : p <= q

LevelGroup1(line, p) == SubSeq(line, p + 6, DigitRunEnd(line, p + 6))
LevelGroup2(line, p) == Drop(line, DigitRunEnd(line, p + 6) + 2)

\* the conditions of the if / elif chain, in the order the source tests them
IsLevelBranch(line) == Contains(line, sLevel) /\ Contains(line, sColon)
IsExampleBranch(line) == ~IsLevelBranch(line) /\ StartsWith(line, sExample)
IsCandidateBranch(line) ==
    /\ ~IsLevelBranch(line) /\ ~StartsWith(line, sExample)
    /\ StartsWith(Strip(line), sCandidate)
IsReferenceBranch(line) ==
    /\ ~IsLevelBranch(line) /\ ~StartsWith(line, sExample)
    /\ ~StartsWith(Strip(line), sCandidate)
    /\ StartsWith(Strip(line), sReference)
IsResultsBranch(line) ==
    /\ ~IsLevelBranch(line) /\ ~StartsWith(line, sExample)
    /\ ~StartsWith(Strip(line), sCandidate)
    /\ ~StartsWith(Strip(line), sReference)
    /\ (Contains(line, sResult) \/ Contains(line, sFMeasure))

\* int(line.split()[1].rstrip(':')) raises IndexError or ValueError
ExampleRaises(line) ==
    \/ Len(SplitWs(line)) < 2
    \/ ~IsIntLiteral(RStripChars(SplitWs(line)[2], {":"}))

ExampleNum(line) == IntOf(RStripChars(SplitWs(line)[2], {":"}))

\* the dict appended to results
Record(ex, lv, lvn, cand, ref, numbers) ==
    [example_num |-> ex, level |-> lv, level_name |-> lvn,
     candidate |-> cand, reference |-> ref,
     f_measure |-> FloatOf(numbers[1]),
     precision |-> FloatOf(numbers[2]),
     recall |-> FloatOf(numbers[3])]

\* the locals of extract_results before the loop
ExtractStart ==
    [current_example |-> None, current_level |-> None,
     current_level_name |-> None, current_candidate |-> None,
     current_reference |-> None, results |-> <<>>, raised |-> FALSE]

\* one pass of the loop body on one line
ExtractStep(st, line) ==
    IF IsLevelBranch(line) THEN
        LET p == LevelSearch(line) IN
        IF p # 0
        THEN [st EXCEPT !.current_level = Some(DigitsVal(LevelGroup1(line, p))),
                        !.current_level_name = Some(Strip(LevelGroup2(line, p)))]
        ELSE st
    ELSE IF StartsWith(line, sExample) THEN
        IF ExampleRaises(line) THEN [st EXCEPT !.raised = TRUE]
        ELSE [st EXCEPT !.current_example = Some(ExampleNum(line))]
    ELSE IF StartsWith(Strip(line), sCandidate) THEN
        [st EXCEPT !.current_candidate = Some(Strip(AfterFirst(line, sCandidate)))]
    ELSE IF StartsWith(Strip(line), sReference) THEN
        [st EXCEPT !.current_reference = Some(Strip(AfterFirst(line, sReference)))]
    ELSE IF Contains(line, sResult) \/ Contains(line, sFMeasure) THEN
        LET numbers == FindDecimals(line, 1) IN
        IF Len(numbers) >= 3
        THEN [st EXCEPT !.results = Append(@,
                            Record(st.current_example, st.current_level,
                                   st.current_level_name, st.current_candidate,
                                   st.current_reference, numbers)),
                        !.current_candidate = None,
                        !.current_reference = None]
        ELSE st
    ELSE st

\* output.strip().split('\n')
SplitLines(text) == SplitOn(Strip(text), "\n")

\* the whole loop, stopping at the line that raises
RECURSIVE ExtractLoop(_, _)
ExtractLoop(st, ls) ==
    IF ls = <<>> \/ st.raised THEN st
    ELSE ExtractLoop(ExtractStep(st, Head(ls)), Tail(ls))

\* extract_results(output): the final locals; .results is the value returned
\* unless .raised
ExtractResults(text) == ExtractLoop(ExtractStart, SplitLines(text))


\* ------------------------------------------------------------------ inputs
\* lines a candidate may print
lnLevel1 == <<"L","e","v","e","l"," ","1",":"," ","A">>               \* "Level 1: A"
lnLevel2 == <<"L","e","v","e","l"," ","2",":"," ","B">>               \* "Level 2: B"
lnExample1 == <<"E","x","a","m","p","l","e"," ","1",":">>             \* "Example 1:"
lnExample2 == <<"E","x","a","m","p","l","e"," ","2",":">>             \* "Example 2:"
lnExampleOne == <<"E","x","a","m","p","l","e"," ","o","n","e",":">>   \* "Example one:"
lnCandidate == <<"C","a","n","d","i","d","a","t","e",":"," ","a">>    \* "Candidate: a"
lnReference == <<" ","R","e","f","e","r","e","n","c","e",":"," ","b">> \* " Reference: b"
lnCandLevel == <<"C","a","n","d","i","d","a","t","e",":"," ","L","e","v","e","l"," ","2",":"," ","B">>
                                                          \* "Candidate: Level 2: B"
lnResult == <<"R","e","s","u","l","t",":"," ","0",".","5"," ","0",".","5"," ","0",".","5">>
                                                          \* "Result: 0.5 0.5 0.5"
lnResultB == <<"R","e","s","u","l","t",":"," ","0",".","6"," ","1",".","0"," ","0",".","4">>
                                                          \* "Result: 0.6 1.0 0.4"
lnResultP == <<"R","e","s","u","l","t",":"," ","0",".","6"," ","0",".","9"," ","0",".","4">>
                                                          \* "Result: 0.6 0.9 0.4"
lnResultNear == <<"R","e","s","u","l","t",":"," ","0",".","5","0","0","0","5"," ","0",".","5"," ","0",".","5">>
                                                          \* "Result: 0.50005 0.5 0.5"
lnResultFar == <<"R","e","s","u","l","t",":"," ","0",".","6","0","0","2"," ","1",".","0"," ","0",".","4">>
                                                          \* "Result: 0.6002 1.0 0.4"
lnFMeasure == <<"F","-","M","e","a","s","u","r","e",":"," ","0",".","6",","," ","P","r","e","c","i","s","i","o","n",":"," ","1",".","0",","," ","R","e","c","a","l","l",":"," ","0",".","4">>
                              \* "F-Measure: 0.6, Precision: 1.0, Recall: 0.4"
lnGap == <<"R","e","s","u","l","t",":"," ","0",".","5"," ","0",".","5">> \* "Result: 0.5 0.5"
lnNote == <<"n","o","t","e">>                                          \* "note"

\* the lines the texts given to extract_results are made of
Lines == {lnLevel1, lnExample1, lnExample2, lnExampleOne, lnCandidate,
          lnReference, lnCandLevel, lnResult, lnFMeasure, lnGap, lnNote}

RECURSIVE SeqsUpTo(_, _)
SeqsUpTo(S, n) ==
    IF n = 0 THEN {<<>>}
    ELSE LET shorter == SeqsUpTo(S, n - 1)
         IN shorter \cup {Append(q, e) : q \in shorter, e \in S}

ExtractInputs == {Join(ls) : ls \in SeqsUpTo(Lines, MaxLines)}

\* what a candidate may print in a run of main
outBoth == Join(<<lnLevel1, lnExample1, lnCandidate, lnReference, lnResult,
                  lnExample2, lnResultB>>)
outPrecision == Join(<<lnLevel1, lnExample1, lnCandidate, lnReference, lnResult,
                       lnExample2, lnResultP>>)
outNearFar == Join(<<lnLevel1, lnExample1, lnCandidate, lnReference,
                     lnResultNear, lnExample2, lnResultFar>>)
outShort == Join(<<lnLevel1, lnExample1, lnResult>>)
outLateLevel == Join(<<lnExample1, lnResult, lnLevel1, lnExample2, lnResultB>>)
outTwoLevels == Join(<<lnLevel1, lnExample1, lnResult, lnLevel2, lnExample2,
                       lnResultB>>)
outEmpty == <<>>

Outputs == {outBoth, outPrecision, outNearFar, outShort, outLateLevel,
            outTwoLevels, outEmpty}

\* elapsed wall-clock times of one execution, in ms
Durations == {1, 2}
ReturnCodes == {0, 1}

\* ------------------------------------------------------ compare_results
\* the tolerance 0.0001 in units of 10^-FracDigits
Tolerance == Pow10(FracDigits - 4)

\* the test of line 222
ResultsMatch(j_res, r_res) ==
    /\ Abs(j_res.f_measure - r_res.f_measure) < Tolerance
    /\ Abs(j_res.precision - r_res.precision) < Tolerance
    /\ Abs(j_res.recall - r_res.recall) < Tolerance

\* what the loop of lines 197-225 prints from pair i on; cur is current_level
RECURSIVE ComparePrints(_, _, _, _)
ComparePrints(jr, rr, i, cur) ==
    IF i > Len(jr) THEN <<>>
    ELSE LET j_res == jr[i]
             r_res == rr[i]
             header == j_res.level # cur /\ j_res.level # None
             verdict == IF ResultsMatch(j_res, r_res) THEN "match"
                        ELSE "differences"
         IN (IF header THEN <<<<"level_header", j_res.level>>>> ELSE <<>>)
            \o <<<<"example", i>>>>
            \o (IF j_res.candidate # None /\ j_res.candidate # Some(<<>>)
                THEN <<<<"candidate", i>>>> ELSE <<>>)
            \o (IF j_res.reference # None /\ j_res.reference # Some(<<>>)
                THEN <<<<"reference", i>>>> ELSE <<>>)
            \o <<<<verdict, i>>>>
            \o ComparePrints(jr, rr, i + 1, IF header THEN j_res.level ELSE cur)

\* ------------------------------------------------------ final report of main
\* the test of lines 315-316
FMatch(j_res, r_res) == Abs(j_res.f_measure - r_res.f_measure) < Tolerance

\* level_stats after the loop of lines 308-317, keyed by j_res.get('level', 0)
LevelStats(jr, rr) ==
    LET n == IF Len(jr) < Len(rr) THEN Len(jr) ELSE Len(rr)
        at(level) == {i \in 1..n : jr[i].level = level}
    IN [level \in {jr[i].level : i \in 1..n} |->
          [count |-> Cardinality(at(level)),
           matched |-> Cardinality({i \in at(level) : FMatch(jr[i], rr[i])})]]

\* sorted(level_stats.keys()) raises TypeError when None meets an int
SortedRaises(keys) == None \in keys /\ keys # {None}

RECURSIVE SumOver(_, _)
SumOver(f, S) ==
    IF S = {} THEN 0
    ELSE LET k == CHOOSE k \in S : TRUE IN f[k] + SumOver(f, S \ {k})

\* a ratio as a percentage with one decimal place, in tenths of a percent
\* (ties to even, as the formatting of an exactly represented tie)
Percent1(num, den) ==
    LET q == (num * 1000) \div den
        r2 == 2 * ((num * 1000) % den)
    IN IF r2 > den \/ (r2 = den /\ q % 2 = 1) THEN q + 1 ELSE q

\* the keys in increasing order, None (alone) as itself
RECURSIVE SortedKeys(_)
SortedKeys(keys) ==
    IF keys = {} THEN <<>>
    ELSE IF keys = {None} THEN <<None>>
    ELSE LET k == CHOOSE k \in keys : \A o \in keys : k[1] <= o[1]
         IN <<k>> \o SortedKeys(keys \ {k})

\* the lines 332-335 print for the levels, in order
LevelPrints(stats) ==
    LET order == SortedKeys(DOMAIN stats)
    IN [k \in 1..Len(order) |->
          <<"level_summary", order[k], stats[order[k]].count,
            stats[order[k]].matched,
            Percent1(stats[order[k]].matched, stats[order[k]].count)>>]

RECURSIVE SeqSum(_)
SeqSum(q) == IF q = <<>> THEN 0 ELSE Head(q) + SeqSum(Tail(q))

\* rust_times[1:] if len(rust_times) > 1 else rust_times
WarmTimes(rust_times) == IF Len(rust_times) > 1 THEN Tail(rust_times) ELSE rust_times

\* rust_warm_avg < java_avg, the two means compared without dividing
RustFaster(jt, rt) ==
    SeqSum(WarmTimes(rt)) * Len(jt) < SeqSum(jt) * Len(WarmTimes(rt))

\* ------------------------------------------------------------------- state
VARIABLES
    pc,                  \* where main is
    stdout,              \* what has been printed, in order
    executions,          \* the subprocess.run calls made, in order
    i,                   \* loop variable of run_java / run_rust
    times,               \* times of the running run_java / run_rust
    java_times, rust_times,
    cr_java_results, cr_rust_results,   \* locals of compare_results
    java_results, rust_results,         \* what compare_results returned
    level_stats, total_matched, total_examples, overall_match_rate,
    epc,                 \* where extract_results is
    output,              \* its argument
    lines, idx,          \* the split text and the index of the next line
    current_example, current_level, current_level_name,
    current_candidate, current_reference,
    results,
    emitted_at           \* history: the index of the line of each append

mainVars == <<pc, stdout, executions, i, times, java_times, rust_times,
              cr_java_results, cr_rust_results, java_results, rust_results,
              level_stats, total_matched, total_examples, overall_match_rate>>
extractVars == <<epc, output, lines, idx, current_example, current_level,
                 current_level_name, current_candidate, current_reference,
                 results, emitted_at>>
vars == <<mainVars, extractVars>>

Say(msgs) == stdout' = stdout \o msgs

Printed(tag) == \E k \in 1..Len(stdout) : stdout[k][1] = tag

\* one subprocess.run call: returncode is None where the source does not read
\* it, elapsed is None where the source does not compute end - start
Run(cmd, phase, rc, elapsed) ==
    [cmd |-> cmd, phase |-> phase, returncode |-> rc, elapsed |-> elapsed]

\* ----------------------------------------------------- extract_results, run
ExtractIdle ==
    /\ epc = "idle" /\ output = <<>> /\ lines = <<>> /\ idx = 0
    /\ current_example = None /\ current_level = None
    /\ current_level_name = None /\ current_candidate = None
    /\ current_reference = None /\ results = <<>> /\ emitted_at = <<>>

\* lines 126-133
ExtractBegin ==
    /\ epc = "start"
    /\ lines' = SplitLines(output)
    /\ idx' = 1
    /\ results' = ExtractStart.results
    /\ current_example' = ExtractStart.current_example
    /\ current_level' = ExtractStart.current_level
    /\ current_level_name' = ExtractStart.current_level_name
    /\ current_candidate' = ExtractStart.current_candidate
    /\ current_reference' = ExtractStart.current_reference
    /\ epc' = "loop"
    /\ UNCHANGED <<output, emitted_at, mainVars>>

\* lines 135-168: the loop body on the next line
ExtractLine ==
    /\ epc = "loop"
    /\ idx <= Len(lines)
    /\ LET st == [current_example |-> current_example,
                  current_level |-> current_level,
                  current_level_name |-> current_level_name,
                  current_candidate |-> current_candidate,
                  current_reference |-> current_reference,
                  results |-> results, raised |-> FALSE]
           nx == ExtractStep(st, lines[idx])
       IN /\ current_example' = nx.current_example
          /\ current_level' = nx.current_level
          /\ current_level_name' = nx.current_level_name
          /\ current_candidate' = nx.current_candidate
          /\ current_reference' = nx.current_reference
          /\ results' = nx.results
          /\ emitted_at' = IF Len(nx.results) > Len(results)
                           THEN Append(emitted_at, idx) ELSE emitted_at
          /\ epc' = IF nx.raised THEN "raised" ELSE "loop"
          /\ idx' = IF nx.raised THEN idx ELSE idx + 1
    /\ UNCHANGED <<output, lines, mainVars>>

\* line 170
ExtractReturn ==
    /\ epc = "loop"
    /\ idx > Len(lines)
    /\ epc' = "done"
    /\ UNCHANGED <<output, lines, idx, current_example, current_level,
                   current_level_name, current_candidate, current_reference,
                   results, emitted_at, mainVars>>

\* ------------------------------------------------------------------- main
MainIdle ==
    /\ stdout = <<>> /\ executions = <<>> /\ i = 0 /\ times = <<>>
    /\ java_times = <<>> /\ rust_times = <<>>
    /\ cr_java_results = <<>> /\ cr_rust_results = <<>>
    /\ java_results = <<>> /\ rust_results = <<>>
    /\ level_stats = <<>> /\ total_matched = 0 /\ total_examples = 0
    /\ overall_match_rate = 0

restOfMain == <<i, times, java_times, rust_times, cr_java_results,
                cr_rust_results, java_results, rust_results, level_stats,
                total_matched, total_examples, overall_match_rate>>

\* lines 253-255 with compile_java (18-39)
CompileJava ==
    /\ pc = "compile_java"
    /\ \E exists \in BOOLEAN, rc \in ReturnCodes :
         IF ~exists
         THEN /\ Say(<<<<"java_source_not_found">>, <<"failed_to_compile_java">>>>)
              /\ pc' = "done"
              /\ UNCHANGED executions
         ELSE /\ executions' = Append(executions, Run("javac", "build", Some(rc), None))
              /\ IF rc # 0
                 THEN /\ Say(<<<<"java_compilation_failed">>,
                               <<"failed_to_compile_java">>>>)
                      /\ pc' = "done"
                 ELSE /\ Say(<<<<"java_compilation_successful">>>>)
                      /\ pc' = "compile_rust"
    /\ UNCHANGED <<restOfMain, extractVars>>

\* main going on to the executions after a failed build of the second candidate
CompileRustGoesOn ==
    /\ pc = "compile_rust"
    /\ \E exists \in BOOLEAN, rc \in ReturnCodes :
         IF ~exists
         THEN /\ Say(<<<<"rust_dir_not_found">>, <<"failed_to_compile_rust">>>>)
              /\ pc' = "done"
              /\ UNCHANGED executions
         ELSE /\ executions' = Append(executions, Run("cargo", "build", Some(rc), None))
              /\ IF rc # 0
                 THEN /\ Say(<<<<"rust_compilation_failed">>,
                               <<"failed_to_compile_rust">>>>)
                      /\ pc' = "run_java"
                 ELSE /\ Say(<<<<"rust_compilation_successful">>>>)
                      /\ pc' = "run_java"
    /\ UNCHANGED <<restOfMain, extractVars>>

\* lines 257-259 with compile_rust (41-62)
CompileRust ==
    /\ pc = "compile_rust"
    /\ \E exists \in BOOLEAN, rc \in ReturnCodes :
         IF ~exists
         THEN /\ Say(<<<<"rust_dir_not_found">>, <<"failed_to_compile_rust">>>>)
              /\ pc' = "done"
              /\ UNCHANGED executions
         ELSE /\ executions' = Append(executions, Run("cargo", "build", Some(rc), None))
              /\ IF rc # 0
                 THEN /\ Say(<<<<"rust_compilation_failed">>,
                               <<"failed_to_compile_rust">>>>)
                      /\ pc' = "done"
                 ELSE /\ Say(<<<<"rust_compilation_successful">>>>)
                      /\ pc' = "run_java"
    /\ UNCHANGED <<restOfMain, extractVars>>

\* run_java, lines 66-74
RunJavaBegin ==
    /\ pc = "run_java"
    /\ \E exists \in BOOLEAN :
         IF ~exists
         THEN /\ Say(<<<<"java_class_not_found">>>>)
              /\ java_times' = <<>>
              /\ pc' = "run_rust"
              /\ UNCHANGED <<i, times>>
         ELSE /\ Say(<<<<"running_java", Iterations>>>>)
              /\ times' = <<>>
              /\ i' = 0
              /\ pc' = "java_loop"
              /\ UNCHANGED java_times
    /\ UNCHANGED <<executions, rust_times, cr_java_results, cr_rust_results,
                   java_results, rust_results, level_stats, total_matched,
                   total_examples, overall_match_rate, extractVars>>

\* the loop of run_java leaving at the first failed execution
RunJavaIterationStopsOnFailure ==
    /\ pc = "java_loop"
    /\ i < Iterations
    /\ \E rc \in ReturnCodes :
         IF rc = 0
         THEN \E ms \in Durations :
                /\ executions' = Append(executions,
                                        Run("java", "timed", Some(rc), Some(ms)))
                /\ times' = Append(times, ms)
                /\ Say(<<<<"java_iteration", i + 1, ms>>>>)
         ELSE /\ executions' = Append(executions,
                                      Run("java", "timed", Some(rc), None))
              /\ times' = times
              /\ Say(<<<<"java_iteration_failed", i + 1>>>>)
    /\ i' = IF times' = times THEN Iterations ELSE i + 1
    /\ UNCHANGED <<pc, java_times, rust_times, cr_java_results,
                   cr_rust_results, java_results, rust_results, level_stats,
                   total_matched, total_examples, overall_match_rate,
                   extractVars>>

\* run_java, lines 76-90: one pass of the loop
RunJavaIteration ==
    /\ pc = "java_loop"
    /\ i < Iterations
    /\ \E rc \in ReturnCodes :
         IF rc = 0
         THEN \E ms \in Durations :
                /\ executions' = Append(executions,
                                        Run("java", "timed", Some(rc), Some(ms)))
                /\ times' = Append(times, ms)
                /\ Say(<<<<"java_iteration", i + 1, ms>>>>)
         ELSE /\ executions' = Append(executions,
                                      Run("java", "timed", Some(rc), None))
              /\ times' = times
              /\ Say(<<<<"java_iteration_failed", i + 1>>>>)
    /\ i' = i + 1
    /\ UNCHANGED <<pc, java_times, rust_times, cr_java_results,
                   cr_rust_results, java_results, rust_results, level_stats,
                   total_matched, total_examples, overall_match_rate,
                   extractVars>>

\* run_java, line 92, and the assignment of line 263
RunJavaReturn ==
    /\ pc = "java_loop"
    /\ i >= Iterations
    /\ java_times' = times
    /\ pc' = "run_rust"
    /\ UNCHANGED <<stdout, executions, i, times, rust_times, cr_java_results,
                   cr_rust_results, java_results, rust_results, level_stats,
                   total_matched, total_examples, overall_match_rate,
                   extractVars>>

\* run_rust, lines 96-104
RunRustBegin ==
    /\ pc = "run_rust"
    /\ \E exists \in BOOLEAN :
         IF ~exists
         THEN /\ Say(<<<<"rust_binary_not_found">>>>)
              /\ rust_times' = <<>>
              /\ pc' = "print_statistics"
              /\ UNCHANGED <<i, times>>
         ELSE /\ Say(<<<<"running_rust", Iterations>>>>)
              /\ times' = <<>>
              /\ i' = 0
              /\ pc' = "rust_loop"
              /\ UNCHANGED rust_times
    /\ UNCHANGED <<executions, java_times, cr_java_results, cr_rust_results,
                   java_results, rust_results, level_stats, total_matched,
                   total_examples, overall_match_rate, extractVars>>

\* run_rust, lines 106-120: one pass of the loop
RunRustIteration ==
    /\ pc = "rust_loop"
    /\ i < Iterations
    /\ \E rc \in ReturnCodes :
         IF rc = 0
         THEN \E ms \in Durations :
                /\ executions' = Append(executions,
                                        Run("rust", "timed", Some(rc), Some(ms)))
                /\ times' = Append(times, ms)
                /\ Say(<<<<"rust_iteration", i + 1, ms>>>>)
         ELSE /\ executions' = Append(executions,
                                      Run("rust", "timed", Some(rc), None))
              /\ times' = times
              /\ Say(<<<<"rust_iteration_failed", i + 1>>>>)
    /\ i' = i + 1
    /\ UNCHANGED <<pc, java_times, rust_times, cr_java_results,
                   cr_rust_results, java_results, rust_results, level_stats,
                   total_matched, total_examples, overall_match_rate,
                   extractVars>>

\* run_rust, line 122, and the assignment of line 264
RunRustReturn ==
    /\ pc = "rust_loop"
    /\ i >= Iterations
    /\ rust_times' = times
    /\ pc' = "print_statistics"
    /\ UNCHANGED <<stdout, executions, i, times, java_times, cr_java_results,
                   cr_rust_results, java_results, rust_results, level_stats,
                   total_matched, total_examples, overall_match_rate,
                   extractVars>>

\* print_statistics (232-245) for one list of times
StatisticsPrints(ts, language) ==
    IF ts = <<>> THEN <<<<"no_valid_times", language>>>>
    ELSE <<<<"statistics", language, Len(ts), SeqSum(ts)>>>>
         \o (IF Len(ts) > 1 THEN <<<<"stdev", language>>>> ELSE <<>>)

\* lines 267-268
PrintStatistics ==
    /\ pc = "print_statistics"
    /\ Say(StatisticsPrints(java_times, "Java")
           \o StatisticsPrints(rust_times, "Rust"))
    /\ pc' = "compare_results"
    /\ UNCHANGED <<executions, restOfMain, extractVars>>

\* lines 195-230: what compare_results prints after the heading and the pair
\* it returns
Comparison(jr, rr) ==
    IF Len(jr) = Len(rr)
    THEN [prints |-> ComparePrints(jr, rr, 1, None), first |-> jr, second |-> rr]
    ELSE [prints |-> <<>>, first |-> <<>>, second |-> <<>>]

\* lines 191-192 for each text a candidate may print
Extracted == [text \in Outputs |-> ExtractResults(text)]

\* line 271 with compare_results (172-230); the exception of extract_results
\* goes through main
CompareResults ==
    /\ pc = "compare_results"
    /\ \E java_stdout \in Outputs, rust_stdout \in Outputs :
         LET j == Extracted[java_stdout]
             r == Extracted[rust_stdout]
         IN /\ executions' = executions \o <<Run("java", "extract", None, None),
                                              Run("rust", "extract", None, None)>>
            /\ IF j.raised \/ r.raised
               THEN /\ Say(<<<<"comparing_results">>>>)
                    /\ pc' = "raised"
                    /\ UNCHANGED <<cr_java_results, cr_rust_results,
                                   java_results, rust_results>>
               ELSE /\ cr_java_results' = j.results
                    /\ cr_rust_results' = r.results
                    /\ pc' = "final_report"
                    /\ Say(<<<<"comparing_results">>, <<"accuracy_comparison">>>>
                           \o Comparison(j.results, r.results).prints)
                    /\ java_results' = Comparison(j.results, r.results).first
                    /\ rust_results' = Comparison(j.results, r.results).second
    /\ UNCHANGED <<i, times, java_times, rust_times, level_stats,
                   total_matched, total_examples, overall_match_rate,
                   extractVars>>

\* lines 279-300
PerformancePrints ==
    IF java_times # <<>> /\ rust_times # <<>>
    THEN <<<<"performance_summary">>,
           IF RustFaster(java_times, rust_times)
           THEN <<"rust_is_faster">> ELSE <<"java_is_faster">>>>
    ELSE <<>>

\* lines 303-342: what the scenario summary leaves in the locals of main,
\* whether sorted() raised, and whether the overall line was printed
ScenarioSummary(jr, rr) ==
    IF jr = <<>> \/ rr = <<>>
    THEN [printed |-> FALSE, raised |-> FALSE, level_stats |-> <<>>,
          total_matched |-> 0, total_examples |-> 0, overall_match_rate |-> 0]
    ELSE LET stats == LevelStats(jr, rr)
             matched == [k \in DOMAIN stats |-> stats[k].matched]
             count == [k \in DOMAIN stats |-> stats[k].count]
             tm == SumOver(matched, DOMAIN stats)
             te == SumOver(count, DOMAIN stats)
         IN IF SortedRaises(DOMAIN stats)
            THEN [printed |-> FALSE, raised |-> TRUE, level_stats |-> stats,
                  total_matched |-> 0, total_examples |-> 0,
                  overall_match_rate |-> 0]
            ELSE [printed |-> TRUE, raised |-> FALSE, level_stats |-> stats,
                  total_matched |-> tm, total_examples |-> te,
                  overall_match_rate |-> IF te > 0 THEN Percent1(tm, te) ELSE 0]

\* lines 273-359
FinalReport ==
    /\ pc = "final_report"
    /\ LET sm == ScenarioSummary(java_results, rust_results) IN
         /\ level_stats' = sm.level_stats
         /\ total_matched' = sm.total_matched
         /\ total_examples' = sm.total_examples
         /\ overall_match_rate' = sm.overall_match_rate
         /\ pc' = IF sm.raised THEN "raised" ELSE "done"
         /\ Say(<<<<"final_report">>>> \o PerformancePrints
                \o (IF sm.raised THEN <<<<"scenario_summary">>>>
                    ELSE IF sm.printed
                    THEN <<<<"scenario_summary">>>>
                         \o LevelPrints(sm.level_stats)
                         \o <<<<"overall", sm.total_examples, sm.total_matched,
                                sm.overall_match_rate>>,
                              <<"f_measure_statistics">>, <<"notes">>>>
                    ELSE <<<<"notes">>>>))
    /\ UNCHANGED <<executions, i, times, java_times, rust_times,
                   cr_java_results, cr_rust_results, java_results,
                   rust_results, extractVars>>

\* ---------------------------------------------------------- specifications
\* a run of main
Init == pc = "compile_java" /\ MainIdle /\ ExtractIdle

Next ==
    \/ CompileJava
    \/ CompileRust
    \/ RunJavaBegin
    \/ RunJavaIteration
    \/ RunJavaReturn
    \/ RunRustBegin
    \/ RunRustIteration
    \/ RunRustReturn
    \/ PrintStatistics
    \/ CompareResults
    \/ FinalReport

Spec == Init /\ [][Next]_vars

\* a call of extract_results on a text
ExtractInit ==
    /\ pc = "idle" /\ MainIdle
    /\ epc = "start"
    /\ output \in ExtractInputs
    /\ lines = <<>> /\ idx = 0
    /\ current_example = None /\ current_level = None
    /\ current_level_name = None /\ current_candidate = None
    /\ current_reference = None /\ results = <<>> /\ emitted_at = <<>>

ExtractNext ==
    \/ ExtractBegin
    \/ ExtractLine
    \/ ExtractReturn

SpecExtract == ExtractInit /\ [][ExtractNext]_vars

\* ------------------------------------------------------------------ claims
Max(S) == CHOOSE m \in S : \A o \in S : o <= m

\* the executions of the timing loop of one candidate, in order
TimedRuns(cmd) ==
    LET Test(e) == e.cmd = cmd /\ e.phase = "timed"
    IN SelectSeq(executions, Test)

\* the elapsed times of the zero-exit executions among runs, in order
RECURSIVE SamplesOf(_)
SamplesOf(runs) ==
    IF runs = <<>> THEN <<>>
    ELSE (IF Head(runs).returncode = Some(0) THEN Head(runs).elapsed ELSE <<>>)
         \o SamplesOf(Tail(runs))

StdoutHas(tag, k) ==
    \E m \in 1..Len(stdout) :
        /\ Len(stdout[m]) = 2 /\ stdout[m][1] = tag /\ stdout[m][2] = k

\* the three differences of a pair, each strictly below the tolerance
AllThreeBelowTolerance(a, b) ==
    /\ Abs(a.f_measure - b.f_measure) < Tolerance
    /\ Abs(a.precision - b.precision) < Tolerance
    /\ Abs(a.recall - b.recall) < Tolerance

\* C1: for sequences of equal length a pair is classified as matched iff its
\* three differences are all strictly below 0.0001, and the matched-count of
\* every level and the overall matched-count of the final report count
\* exactly the pairs classified this way.
C1_ReportCountsClassifiedPairs ==
    LET n == Len(java_results)
        ok == {k \in 1..n : AllThreeBelowTolerance(java_results[k], rust_results[k])}
    IN /\ \A k \in 1..n : StdoutHas("match", k) <=> k \in ok
       /\ \A k \in 1..n : StdoutHas("differences", k) <=> k \notin ok
       /\ Printed("overall") =>
            /\ total_examples = n
            /\ total_matched = Cardinality(ok)
            /\ overall_match_rate = Percent1(Cardinality(ok), n)
            /\ \A level \in DOMAIN level_stats :
                 level_stats[level].matched =
                   Cardinality({k \in ok : java_results[k].level = level})

\* C2: when the two extracted sequences differ in length no pair is compared,
\* not even of the common prefix, and the run does not end without a
\* structural-mismatch report.
C2_LengthMismatchReported ==
    Len(cr_java_results) # Len(cr_rust_results) =>
        /\ ~Printed("example") /\ ~Printed("match") /\ ~Printed("differences")
        /\ pc = "done" => Printed("structural_mismatch")

Ordinal(r) == IF r.example_num = None THEN 0 ELSE r.example_num[1]

\* C3: every record extract_results has emitted carries a positive example
\* ordinal, and the ordinals of consecutive records strictly increase.
C3_OrdinalsPositiveIncreasing ==
    /\ \A k \in 1..Len(results) :
         results[k].example_num # None /\ Ordinal(results[k]) > 0
    /\ \A k \in 2..Len(results) : Ordinal(results[k - 1]) < Ordinal(results[k])

ExampleLineIn(a, b) == \E m \in a..b : IsExampleBranch(lines[m])

\* C4: between one example line and the next, extract_results emits at most
\* one record: two records emitted after an example line have another
\* example line between them.
C4_OneRecordPerExample ==
    \A k \in 2..Len(emitted_at) :
        ExampleLineIn(1, emitted_at[k - 1] - 1) =>
            ExampleLineIn(emitted_at[k - 1] + 1, emitted_at[k] - 1)

\* a line the loop has dealt with
Handled(m) == m < idx \/ (m = idx /\ epc = "raised")

\* a results-bearing line from which fewer than three numbers can be read
GapLine(line) == IsResultsBranch(line) /\ Len(FindDecimals(line, 1)) < 3

\* C5: a results-bearing line with fewer than three decimal numbers is
\* surfaced, by a printed warning or by the failure of the call at that line.
C5_GapSurfaced ==
    \A m \in 1..Len(lines) :
        (Handled(m) /\ GapLine(lines[m])) =>
            stdout # <<>> \/ (epc = "raised" /\ idx = m)

\* C6: with the executable present, the loop of run_java and of run_rust
\* attempts exactly `iterations` executions whatever their exit statuses, and
\* the list of times holds one sample for each zero-exit execution, in order.
C6_EveryIterationAttempted ==
    /\ pc = "java_loop" =>
         /\ Len(TimedRuns("java")) = i
         /\ times = SamplesOf(TimedRuns("java"))
    /\ pc = "rust_loop" =>
         /\ Len(TimedRuns("rust")) = i
         /\ times = SamplesOf(TimedRuns("rust"))
    /\ (Printed("running_java") /\ pc # "java_loop") =>
         /\ Len(TimedRuns("java")) = Iterations
         /\ java_times = SamplesOf(TimedRuns("java"))
    /\ (Printed("running_rust") /\ pc # "rust_loop") =>
         /\ Len(TimedRuns("rust")) = Iterations
         /\ rust_times = SamplesOf(TimedRuns("rust"))

\* a loop in which a failed execution is followed by a successful one
C6_Witness ==
    /\ pc = "done"
    /\ Len(TimedRuns("java")) = Iterations
    /\ TimedRuns("java")[1].returncode = Some(1)
    /\ TimedRuns("java")[Iterations].returncode = Some(0)
    /\ Len(java_times) = Iterations - 1
    /\ Len(TimedRuns("rust")) = Iterations
    /\ TimedRuns("rust")[1].returncode = Some(0)
    /\ TimedRuns("rust")[Iterations].returncode = Some(1)
    /\ Len(rust_times) = Iterations - 1

PhaseRank(e) ==
    CASE e.phase = "build" /\ e.cmd = "javac" -> 1
      [] e.phase = "build" /\ e.cmd = "cargo" -> 2
      [] e.phase = "timed" /\ e.cmd = "java" -> 3
      [] e.phase = "timed" /\ e.cmd = "rust" -> 4
      [] e.phase = "extract" /\ e.cmd = "java" -> 5
      [] e.phase = "extract" /\ e.cmd = "rust" -> 6

\* C7: the phases of main follow one another: build A, build B, the timed
\* iterations of A, those of B, then the pair of executions for extraction;
\* no candidate is executed unless both builds succeeded, and a failed build
\* ends the run with no execution and no comparison.
C7_PhasesInSequence ==
    /\ \A k, l \in 1..Len(executions) :
         k < l =>
           /\ PhaseRank(executions[k]) <= PhaseRank(executions[l])
           /\ PhaseRank(executions[k]) \in {1, 2, 5, 6} =>
                PhaseRank(executions[k]) < PhaseRank(executions[l])
    /\ (\E k \in 1..Len(executions) : executions[k].phase # "build") =>
         /\ Len(executions) >= 2
         /\ executions[1] = Run("javac", "build", Some(0), None)
         /\ executions[2] = Run("cargo", "build", Some(0), None)
    /\ (\E k \in 1..Len(executions) : executions[k].phase = "extract") =>
         /\ pc \in {"final_report", "done", "raised"}
         /\ Printed("running_java") => Len(TimedRuns("java")) = Iterations
         /\ Printed("running_rust") => Len(TimedRuns("rust")) = Iterations
    /\ (Printed("failed_to_compile_java") \/ Printed("failed_to_compile_rust")) =>
         /\ pc = "done"
         /\ \A k \in 1..Len(executions) : executions[k].phase = "build"
         /\ ~Printed("comparing_results")
         /\ ~Printed("final_report")

\* a complete run: both builds, every timed iteration, the extraction pair
C7_Witness ==
    /\ pc = "done"
    /\ Len(executions) = 2 * Iterations + 4
    /\ Printed("overall")

\* C8: for sequences of equal length, the run with the two candidates swapped
\* classifies every index the same way and reports the same overall match
\* rate.
C8_SwapSymmetric ==
    (pc \in {"done", "raised"} /\ Printed("final_report")
        /\ Len(cr_java_results) = Len(cr_rust_results)) =>
      LET swapped == Comparison(cr_rust_results, cr_java_results)
          report == ScenarioSummary(swapped.first, swapped.second)
      IN /\ \A k \in 1..Len(cr_java_results) :
              StdoutHas("match", k) <=>
                (\E m \in 1..Len(swapped.prints) :
                    swapped.prints[m] = <<"match", k>>)
         /\ Printed("overall") <=> report.printed
         /\ (pc = "raised") <=> report.raised
         /\ total_matched = report.total_matched
         /\ total_examples = report.total_examples
         /\ overall_match_rate = report.overall_match_rate

\* a line of none of the four shapes
NoShape(line) ==
    /\ ~IsLevelBranch(line) /\ ~IsExampleBranch(line)
    /\ ~IsCandidateBranch(line) /\ ~IsReferenceBranch(line)
    /\ ~IsResultsBranch(line)

LevelLineIn(a, b) == \E m \in a..b : LevelSearch(lines[m]) # 0

\* C9: extract_results returns for every text and never raises; a line of
\* none of the four shapes changes neither the running context nor the
\* output; a record emitted before any level line (example line) carries
\* None for its level and level name (its example ordinal).
C9_ReturnsForEveryText ==
    [][/\ epc' # "raised"
       /\ (epc = "loop" /\ idx <= Len(lines) /\ NoShape(lines[idx])) =>
            UNCHANGED <<current_example, current_level, current_level_name,
                        current_candidate, current_reference, results>>
       /\ \A k \in 1..Len(results') :
            /\ ~LevelLineIn(1, emitted_at'[k] - 1) =>
                 results'[k].level = None /\ results'[k].level_name = None
            /\ ~ExampleLineIn(1, emitted_at'[k] - 1) =>
                 results'[k].example_num = None]_vars

\* the text of the latest line labelled `label` among lines a..b, or None
LatestSnippet(a, b, label) ==
    LET hits == {m \in a..b : StartsWith(Strip(lines[m]), label)}
    IN IF hits = {} THEN None
       ELSE Some(Strip(AfterFirst(lines[Max(hits)], label)))

\* C10: the candidate (reference) snippet of a record is the text of the
\* latest line starting with "Candidate:" ("Reference:") since the record
\* emitted before it, or None when there is no such line.
C10_SnippetOfLatestLine ==
    \A k \in 1..Len(results) :
        LET from == IF k = 1 THEN 1 ELSE emitted_at[k - 1] + 1
            to == emitted_at[k] - 1
        IN /\ results[k].candidate = LatestSnippet(from, to, sCandidate)
           /\ results[k].reference = LatestSnippet(from, to, sReference)

=============================================================================
